---- MODULE Spec2Model ----
(***************************************************************************)
(* Break-cycle timer of src/src_rust/main.rs: the countdown timer closure, *)
(* the window callbacks registered in main(), the overlay functions        *)
(* show_rest_overlay / update_rest_overlay / hide_rest_overlay and the     *)
(* tray poller, as one state machine over AppState, the clock, the         *)
(* Monitor Source and the windows.                                         *)
(*                                                                         *)
(* Time.  An Instant is an integer number of time units; one unit is half  *)
(* of the countdown timer's period (50 ms), so that a user event can fall  *)
(* strictly between two ticks.  The UI event loop is single threaded: a    *)
(* callback runs to completion at one instant.  While the loop is          *)
(* responsive time passes unit by unit until the timer is due (Elapse);    *)
(* the timer callback then runs on time (delay 0) or late by a whole       *)
(* number of seconds (a stalled loop), and it runs before any other        *)
(* callback that became ready during the stall.                            *)
(***************************************************************************)
EXTENDS Integers, Sequences, FiniteSets, TLC

(***************************************************************************)
(* Bounds of the exploration.                                              *)
(***************************************************************************)
\* Spec: the clock is not advanced past MaxNowSecs seconds, and unit steps of
\* the clock are explored while its sub-second part is below MaxFine
MaxNowSecs == 181
MaxFine == 1
\* SpecTiming: the same two bounds
TimingSecs == 66
TimingFine == 3
\* paused ticks counted in pause_log
MaxLoggedTicks == 2
\* SpecPolicy: the largest rest counter drawn, and the clock bound in seconds
MaxCount == 12
PolicySecs == 60
\* SpecOverlay: the number of show_rest_overlay calls
MaxShows == 3
LiveSecs == 200
MaxDrag == 20

(***************************************************************************)
(* Time base.                                                              *)
(***************************************************************************)
\* Duration::from_millis(100), in units of 50 ms
TickInterval == 2
UnitsPerSec == 10 * TickInterval
\* Duration::from_secs
from_secs(s) == s * UnitsPerSec
\* Duration::as_secs: whole seconds, fraction truncated
as_secs(d) == d \div UnitsPerSec

\* Instant::elapsed / duration_since: saturates at zero
ElapsedSince(instant, t) == IF t >= instant THEN t - instant ELSE 0

\* i32::clamp
\* mutant of clamp: the upper bound not enforced
clamp_no_upper(v, lo, hi) == IF v < lo THEN lo ELSE v

clamp(v, lo, hi) == IF v < lo THEN lo ELSE IF v > hi THEN hi ELSE v

Max(a, b) == IF a >= b THEN a ELSE b

(***************************************************************************)
(* Rest escalation policy (timer closure, Mode::Work arm).                 *)
(***************************************************************************)
RestTypes == {"EyeRest", "Water", "Walk"}

\* mutant of select_rest_type: the two tests in the other order
select_rest_type_water_first(count, walk, water) ==
    IF count % water = 0 THEN "Water"
    ELSE IF count % walk = 0 THEN "Walk"
    ELSE "EyeRest"

select_rest_type(count, walk, water) ==
    IF count % walk = 0 THEN "Walk"
    ELSE IF count % water = 0 THEN "Water"
    ELSE "EyeRest"

\* mutant of compose_message: the category's text in place of the eye-rest text
compose_message_replaced(rest_type) == CASE rest_type = "Water" -> <<"water">> [] rest_type = "Walk" -> <<"walk">> [] rest_type = "EyeRest" -> <<"eye">>
\* the message shown: the eye-rest text, then the addendum of the category
compose_message(rest_type) ==
    CASE rest_type = "Water"   -> <<"eye", "water">>
      [] rest_type = "Walk"    -> <<"eye", "walk">>
      [] rest_type = "EyeRest" -> <<"eye">>

(***************************************************************************)
(* format_duration_mm_ss: format!("{:02}:{:02}", mins, secs).              *)
(***************************************************************************)
DigitChar(n) == CASE n = 0 -> "0" [] n = 1 -> "1" [] n = 2 -> "2" [] n = 3 -> "3"
                  [] n = 4 -> "4" [] n = 5 -> "5" [] n = 6 -> "6" [] n = 7 -> "7"
                  [] n = 8 -> "8" [] n = 9 -> "9"

RECURSIVE Decimal(_)
Decimal(n) == IF n < 10 THEN <<DigitChar(n)>>
              ELSE Append(Decimal(n \div 10), DigitChar(n % 10))

\* mutant of Pad02: no padding
Pad02_unpadded(n) == Decimal(n)
\* {:02}: at least two digits, zero padded
Pad02(n) == IF n < 10 THEN <<"0">> \o Decimal(n) ELSE Decimal(n)

format_duration_mm_ss(duration) ==
    LET secs_remaining == as_secs(duration)
        mins == secs_remaining \div 60
        secs == secs_remaining % 60
    IN Pad02(mins) \o <<":">> \o Pad02(secs)

(***************************************************************************)
(* Monitor Source and overlay windows.                                     *)
(* A scale factor is an integer number of hundredths (125 is 1.25).        *)
(***************************************************************************)
ScaleUnit == 100

MonitorRect(x, y, w, h, sf) ==
    [x |-> x, y |-> y, width |-> w, height |-> h, scale_factor |-> sf]

MonA == MonitorRect(0, 0, 1920, 1080, 100)
MonB == MonitorRect(1920, 0, 2560, 1440, 125)
MonC == MonitorRect(-1200, 0, 1200, 1500, 150)

\* GetSystemMetrics(SM_*VIRTUALSCREEN), scale_factor 1.0
virtual_screen_rect == MonitorRect(-1200, 0, 5680, 1500, ScaleUnit)

\* what monitor_rects() can return
Layouts == {<<>>, <<MonA>>, <<MonA, MonB>>}
\* what window.scale_factor() can return for an overlay window
WindowScales == {100, 125}
\* RestOverlayWindow::new(): Err, or a window with its own scale factor
Err == [ok |-> FALSE]
Ok(scale) == [ok |-> TRUE, scale |-> scale]
CreationOutcomes == {Err} \cup {Ok(s) : s \in WindowScales}

\* fit_overlay_to_monitor; the divisor is the overlay window's scale_factor()
fit_overlay_to_monitor(entry) ==
    LET scale_factor == Max(entry.scale, ScaleUnit \div 10)
    IN [entry EXCEPT
          !.position = <<entry.monitor.x, entry.monitor.y>>,
          !.size = <<(entry.monitor.width * ScaleUnit) \div scale_factor + 1,
                     (entry.monitor.height * ScaleUnit) \div scale_factor + 1>>]

\* a RestOverlayWindow just created, wrapped in an OverlayWindowEntry
NewEntry(id, m, scale) ==
    [window |-> id, monitor |-> m, scale |-> scale,
     position |-> <<0, 0>>, size |-> <<0, 0>>,
     headline |-> "", message |-> <<>>, countdown |-> <<>>, visible |-> FALSE]

\* mutant of clear_overlay_windows: the earlier windows kept
clear_overlay_windows_kept(windows) == windows

\* state.overlay_windows.clear()
clear_overlay_windows(windows) == <<>>

\* show_rest_overlay, the loop over monitor_rects(): a failed creation skips
\* the monitor. created[i] is the outcome of creation i; a window is named
\* by the call that created it (epoch) and the creation's number.
RECURSIVE per_monitor_pass(_, _, _, _, _)
per_monitor_pass(ms, created, epoch, i, acc) ==
    IF i > Len(ms) THEN acc
    ELSE IF created[i].ok
         THEN per_monitor_pass(ms, created, epoch, i + 1,
                  Append(acc, fit_overlay_to_monitor(
                                  NewEntry(<<epoch, i>>, ms[i], created[i].scale))))
         ELSE per_monitor_pass(ms, created, epoch, i + 1, acc)

\* mutants of fallback_pass: no fallback at all; the fallback attempted
\* whatever the loop has left
fallback_pass_skipped(ms, windows, fallback, epoch) == windows
fallback_pass_always(ms, windows, fallback, epoch) ==
    IF fallback.ok
    THEN Append(windows,
                fit_overlay_to_monitor(
                    NewEntry(<<epoch, 0>>,
                             IF ms # <<>> THEN Head(ms) ELSE virtual_screen_rect,
                             fallback.scale)))
    ELSE windows

\* show_rest_overlay, the fallback block
fallback_pass(ms, windows, fallback, epoch) ==
    IF windows = <<>> /\ fallback.ok
    THEN <<fit_overlay_to_monitor(
             NewEntry(<<epoch, 0>>,
                      IF ms # <<>> THEN Head(ms) ELSE virtual_screen_rect,
                      fallback.scale))>>
    ELSE windows

\* show_rest_overlay, the final loop: texts, fit, show, fit
present_overlays(windows, headline, message, countdown) ==
    [i \in 1..Len(windows) |->
        fit_overlay_to_monitor(
            [windows[i] EXCEPT !.headline = headline, !.message = message,
                               !.countdown = countdown, !.visible = TRUE])]

\* show_rest_overlay: the new value of state.overlay_windows; io holds what
\* the outside supplies: ms (monitor_rects() in the loop), again
\* (monitor_rects() in the fallback block), created, fallback, epoch
show_rest_overlay(windows, remaining, headline, message, io) ==
    present_overlays(
        fallback_pass(io.again,
                      per_monitor_pass(io.ms, io.created, io.epoch, 1,
                                       clear_overlay_windows(windows)),
                      io.fallback, io.epoch),
        headline, message, format_duration_mm_ss(remaining))

\* mutant of update_rest_overlay: the collection rebuilt empty
update_rest_overlay_cleared(windows, remaining) == <<>>

\* update_rest_overlay
update_rest_overlay(windows, remaining) ==
    IF windows = <<>> THEN windows
    ELSE [i \in 1..Len(windows) |->
            fit_overlay_to_monitor(
                [windows[i] EXCEPT !.countdown = format_duration_mm_ss(remaining)])]

\* mutant of hide_rest_overlay: the windows hidden but kept in the collection
hide_rest_overlay_kept(windows) ==
    [i \in 1..Len(windows) |-> [windows[i] EXCEPT !.visible = FALSE]]

\* hide_rest_overlay: every window hidden, then the collection cleared
hide_rest_overlay(windows) == <<>>

(***************************************************************************)
(* State.                                                                  *)
(***************************************************************************)
VARIABLES
    \* AppState
    is_paused, work_duration, rest_duration, water_interval, walk_interval,
    eye_rest_count, current_mode, current_rest_type, start_time, last_tick,
    overlay_windows, main_window_visible,
    drag_anchor_window_pos, drag_anchor_pointer_screen_pos,
    \* the outside: Instant::now(), the next due time of the countdown Timer,
    \* the Monitor Source, the MainWindow (handle, shown, position), its
    \* properties, the number of show_rest_overlay calls
    now, timer_due, monitors, main_window, ui, overlay_epoch,
    \* observation of the latest pause (see SpecTiming)
    pause_log

app_state == <<is_paused, work_duration, rest_duration, water_interval,
               walk_interval, eye_rest_count, current_mode, current_rest_type,
               start_time, last_tick, overlay_windows, main_window_visible,
               drag_anchor_window_pos, drag_anchor_pointer_screen_pos>>
outside == <<now, timer_due, monitors, main_window, ui, overlay_epoch>>
vars == <<app_state, outside, pause_log>>

config == <<work_duration, rest_duration, water_interval, walk_interval>>
drag_anchor == <<drag_anchor_window_pos, drag_anchor_pointer_screen_pos>>

\* Option<T>
None == <<>>
Some(v) == <<v>>

\* AppState::default(), MainWindow::new(), the initial settings sync and
\* main_window.show()
Init ==
    /\ is_paused = FALSE
    /\ work_duration = from_secs(20 * 60)
    /\ rest_duration = from_secs(20)
    /\ water_interval = 2
    /\ walk_interval = 3
    /\ eye_rest_count = 0
    /\ current_mode = "Work"
    /\ current_rest_type = "EyeRest"
    /\ start_time = 0
    /\ last_tick = 0
    /\ overlay_windows = <<>>
    /\ main_window_visible = TRUE
    /\ drag_anchor_window_pos = None
    /\ drag_anchor_pointer_screen_pos = None
    /\ now = 0
    /\ timer_due = TickInterval
    /\ monitors \in Layouts
    /\ main_window = [alive |-> TRUE, shown |-> TRUE, position |-> <<100, 100>>,
                      scale |-> ScaleUnit]
    /\ ui = [status_text |-> "", time_display |-> <<>>, progress |-> <<>>,
             is_paused |-> FALSE, work_minutes |-> 20, rest_seconds |-> 20,
             water_interval |-> 2, walk_interval |-> 3]
    /\ overlay_epoch = 0
    /\ pause_log = None

(***************************************************************************)
(* The countdown timer closure, run at instant t.                          *)
(***************************************************************************)
\* mutants of rebase_start_time: the pause not made up for; start_time
\* brought to the present
rebase_start_time_frozen(start, last, t) == start
rebase_start_time_to_now(start, last, t) == t

\* paused branch: start_time += last_tick.elapsed()
rebase_start_time(start, last, t) == start + ElapsedSince(last, t)

\* mutants of limit_reached: the boundary excluded; the limit ignored
limit_reached_strict(elapsed, limit) == elapsed > limit
limit_reached_always(elapsed, limit) == elapsed >= 0

\* if elapsed >= limit
limit_reached(elapsed, limit) == elapsed >= limit

\* mutant of next_eye_rest_count: the increment forgotten
next_eye_rest_count_stuck(count) == count

\* state.eye_rest_count += 1
next_eye_rest_count(count) == count + 1

\* mutant of progress_of: the part of the period gone by, elapsed / limit
progress_of_elapsed(elapsed, limit) == <<elapsed, limit>>
\* 1.0 - elapsed / limit, as the fraction <<numerator, denominator>>
progress_of(elapsed, limit) == <<limit - elapsed, limit>>

\* mutant of current_limit: the work duration the limit of both modes
current_limit_work_only == work_duration
current_limit == IF current_mode = "Work" THEN work_duration ELSE rest_duration

countdown_paused(t) ==
    /\ start_time' = rebase_start_time(start_time, last_tick, t)
    /\ last_tick' = t
    /\ UNCHANGED <<is_paused, config, eye_rest_count, current_mode,
                   current_rest_type, overlay_windows, main_window_visible,
                   drag_anchor, monitors, main_window, ui, overlay_epoch>>

countdown_no_window(t) ==
    /\ last_tick' = t
    /\ UNCHANGED <<is_paused, config, eye_rest_count, current_mode,
                   current_rest_type, start_time, overlay_windows,
                   main_window_visible, drag_anchor, monitors, main_window, ui,
                   overlay_epoch>>

\* mutant of work_to_rest: the Rest counted from the end of the work
\* duration, not from the tick
work_to_rest_catch_up(t, io) ==
    LET count == next_eye_rest_count(eye_rest_count)
        rest_type == select_rest_type(count, walk_interval, water_interval)
    IN /\ last_tick' = t
       /\ start_time' = start_time + work_duration
       /\ current_mode' = "Rest"
       /\ eye_rest_count' = count
       /\ current_rest_type' = rest_type
       /\ main_window' = IF main_window_visible
                         THEN [main_window EXCEPT !.shown = FALSE]
                         ELSE main_window
       /\ overlay_windows' = show_rest_overlay(overlay_windows, rest_duration,
                                 "eye", compose_message(rest_type), io)
       /\ overlay_epoch' = io.epoch
       /\ ui' = [ui EXCEPT !.status_text = "Rest your eyes!",
                           !.time_display = format_duration_mm_ss(rest_duration),
                           !.progress = <<1, 1>>]
       /\ UNCHANGED <<is_paused, config, main_window_visible, drag_anchor,
                      monitors>>

work_to_rest(t, io) ==
    LET count == next_eye_rest_count(eye_rest_count)
        rest_type == select_rest_type(count, walk_interval, water_interval)
    IN /\ last_tick' = t
       /\ start_time' = t
       /\ current_mode' = "Rest"
       /\ eye_rest_count' = count
       /\ current_rest_type' = rest_type
       /\ main_window' = IF main_window_visible
                         THEN [main_window EXCEPT !.shown = FALSE]
                         ELSE main_window
       /\ overlay_windows' = show_rest_overlay(overlay_windows, rest_duration,
                                 "eye", compose_message(rest_type), io)
       /\ overlay_epoch' = io.epoch
       /\ ui' = [ui EXCEPT !.status_text = "Rest your eyes!",
                           !.time_display = format_duration_mm_ss(rest_duration),
                           !.progress = <<1, 1>>]
       /\ UNCHANGED <<is_paused, config, main_window_visible, drag_anchor,
                      monitors>>

\* mutant of rest_to_work: the main window shown again only if it was
\* visible when the Rest began
rest_to_work_if_visible(t) ==
    /\ last_tick' = t
    /\ start_time' = t
    /\ current_mode' = "Work"
    /\ overlay_windows' = hide_rest_overlay(overlay_windows)
    /\ main_window' = IF main_window_visible
                      THEN [main_window EXCEPT !.shown = TRUE]
                      ELSE main_window
    /\ UNCHANGED main_window_visible
    /\ ui' = [ui EXCEPT !.status_text = "Focus Time",
                        !.time_display = format_duration_mm_ss(work_duration),
                        !.progress = <<1, 1>>]
    /\ UNCHANGED <<is_paused, config, eye_rest_count, current_rest_type,
                   drag_anchor, monitors, overlay_epoch>>

rest_to_work(t) ==
    /\ last_tick' = t
    /\ start_time' = t
    /\ current_mode' = "Work"
    /\ overlay_windows' = hide_rest_overlay(overlay_windows)
    /\ main_window' = [main_window EXCEPT !.shown = TRUE]
    /\ main_window_visible' = TRUE
    /\ ui' = [ui EXCEPT !.status_text = "Focus Time",
                        !.time_display = format_duration_mm_ss(work_duration),
                        !.progress = <<1, 1>>]
    /\ UNCHANGED <<is_paused, config, eye_rest_count, current_rest_type,
                   drag_anchor, monitors, overlay_epoch>>

countdown_self_loop(t, elapsed, limit) ==
    LET remaining == limit - elapsed
    IN /\ last_tick' = t
       /\ ui' = [ui EXCEPT !.time_display = format_duration_mm_ss(remaining),
                           !.progress = progress_of(elapsed, limit)]
       /\ overlay_windows' = IF current_mode = "Rest"
                             THEN update_rest_overlay(overlay_windows, remaining)
                             ELSE overlay_windows
       /\ UNCHANGED <<is_paused, config, eye_rest_count, current_mode,
                      current_rest_type, start_time, main_window_visible,
                      drag_anchor, monitors, main_window, overlay_epoch>>

\* what the outside can supply to one show_rest_overlay call, the creations
\* having outcomes among outcomes
ShowIO(outcomes) ==
    {[ms |-> monitors, again |-> monitors, created |-> c, fallback |-> f,
      epoch |-> overlay_epoch + 1] :
        c \in [1..Len(monitors) -> outcomes], f \in outcomes}

countdown_timer(t, outcomes) ==
    IF is_paused THEN countdown_paused(t)
    ELSE IF ~main_window.alive THEN countdown_no_window(t)
    ELSE LET elapsed == ElapsedSince(start_time, t)
             limit == current_limit
         IN IF limit_reached(elapsed, limit)
            THEN IF current_mode = "Work"
                 THEN \E io \in ShowIO(outcomes) : work_to_rest(t, io)
                 ELSE rest_to_work(t)
            ELSE countdown_self_loop(t, elapsed, limit)

(***************************************************************************)
(* The clock and the countdown Timer (TimerMode::Repeated, 100 ms).        *)
(***************************************************************************)
\* time passes while the event loop is idle and the timer is not yet due;
\* unit steps are explored while the sub-second part of the clock is below
\* fine and the clock below horizon seconds
Elapse(fine, horizon) ==
    /\ now < timer_due
    /\ now < from_secs(horizon)
    /\ now % UnitsPerSec < fine
    /\ now' = now + 1
    /\ UNCHANGED <<app_state, timer_due, monitors, main_window, ui,
                   overlay_epoch>>

\* the timer fires delay units from now (0: on time, else late) and runs the
\* closure
timer_tick(delay, horizon, outcomes) ==
    /\ now + delay >= timer_due
    /\ now + delay <= from_secs(horizon)
    /\ now' = now + delay
    /\ timer_due' = now + delay + TickInterval
    /\ countdown_timer(now + delay, outcomes)

(***************************************************************************)
(* MainWindow callbacks.                                                   *)
(***************************************************************************)
on_toggle_timer ==
    /\ is_paused' = ~is_paused
    /\ ui' = IF main_window.alive THEN [ui EXCEPT !.is_paused = ~is_paused] ELSE ui
    /\ UNCHANGED <<config, eye_rest_count, current_mode, current_rest_type,
                   start_time, last_tick, overlay_windows, main_window_visible,
                   drag_anchor, now, timer_due, monitors, main_window,
                   overlay_epoch>>

\* mutant of on_secondary_action: last_tick brought to the present with
\* start_time
on_secondary_action_resets_tick ==
    /\ start_time' = now
    /\ last_tick' = now
    /\ IF ~main_window.alive
       THEN UNCHANGED <<current_mode, overlay_windows, main_window,
                        main_window_visible, ui>>
       ELSE IF current_mode = "Work"
       THEN /\ ui' = [ui EXCEPT
                        !.time_display = format_duration_mm_ss(work_duration),
                        !.progress = <<1, 1>>]
            /\ UNCHANGED <<current_mode, overlay_windows, main_window,
                           main_window_visible>>
       ELSE /\ current_mode' = "Work"
            /\ overlay_windows' = hide_rest_overlay(overlay_windows)
            /\ main_window' = [main_window EXCEPT !.shown = TRUE]
            /\ main_window_visible' = TRUE
            /\ ui' = [ui EXCEPT
                        !.status_text = "Focus Time",
                        !.time_display = format_duration_mm_ss(work_duration),
                        !.progress = <<1, 1>>]
    /\ UNCHANGED <<is_paused, config, eye_rest_count, current_rest_type,
                   drag_anchor, now, timer_due, monitors, overlay_epoch>>

on_secondary_action ==
    /\ start_time' = now
    /\ IF ~main_window.alive
       THEN UNCHANGED <<current_mode, overlay_windows, main_window,
                        main_window_visible, ui>>
       ELSE IF current_mode = "Work"
       THEN /\ ui' = [ui EXCEPT
                        !.time_display = format_duration_mm_ss(work_duration),
                        !.progress = <<1, 1>>]
            /\ UNCHANGED <<current_mode, overlay_windows, main_window,
                           main_window_visible>>
       ELSE /\ current_mode' = "Work"
            /\ overlay_windows' = hide_rest_overlay(overlay_windows)
            /\ main_window' = [main_window EXCEPT !.shown = TRUE]
            /\ main_window_visible' = TRUE
            /\ ui' = [ui EXCEPT
                        !.status_text = "Focus Time",
                        !.time_display = format_duration_mm_ss(work_duration),
                        !.progress = <<1, 1>>]
    /\ UNCHANGED <<is_paused, config, eye_rest_count, current_rest_type,
                   last_tick, drag_anchor, now, timer_due, monitors,
                   overlay_epoch>>

\* mutant of on_apply_work_minutes: in Work start_time reset, last_tick not
on_apply_work_minutes_start_only(arg) ==
    LET minutes == clamp(arg, 1, 180)
    IN /\ work_duration' = from_secs(minutes * 60)
       /\ IF current_mode = "Work"
          THEN start_time' = now /\ UNCHANGED last_tick
          ELSE UNCHANGED <<start_time, last_tick>>
       /\ ui' = IF ~main_window.alive THEN ui
                ELSE IF current_mode = "Work"
                THEN [ui EXCEPT
                        !.work_minutes = minutes,
                        !.status_text = "Focus Time",
                        !.time_display = format_duration_mm_ss(from_secs(minutes * 60)),
                        !.progress = <<1, 1>>]
                ELSE [ui EXCEPT !.work_minutes = minutes]
       /\ UNCHANGED <<is_paused, rest_duration, water_interval, walk_interval,
                      eye_rest_count, current_mode, current_rest_type,
                      overlay_windows, main_window_visible, drag_anchor, now,
                      timer_due, monitors, main_window, overlay_epoch>>

on_apply_work_minutes(arg) ==
    LET minutes == clamp(arg, 1, 180)
    IN /\ work_duration' = from_secs(minutes * 60)
       /\ IF current_mode = "Work"
          THEN start_time' = now /\ last_tick' = now
          ELSE UNCHANGED <<start_time, last_tick>>
       /\ ui' = IF ~main_window.alive THEN ui
                ELSE IF current_mode = "Work"
                THEN [ui EXCEPT
                        !.work_minutes = minutes,
                        !.status_text = "Focus Time",
                        !.time_display = format_duration_mm_ss(from_secs(minutes * 60)),
                        !.progress = <<1, 1>>]
                ELSE [ui EXCEPT !.work_minutes = minutes]
       /\ UNCHANGED <<is_paused, rest_duration, water_interval, walk_interval,
                      eye_rest_count, current_mode, current_rest_type,
                      overlay_windows, main_window_visible, drag_anchor, now,
                      timer_due, monitors, main_window, overlay_epoch>>

\* mutant of on_apply_rest_seconds: a Rest in progress begun anew, as
\* on_apply_work_minutes does for Work
on_apply_rest_seconds_restarts(arg) ==
    LET seconds == clamp(arg, 5, 300)
    IN /\ rest_duration' = from_secs(seconds)
       /\ start_time' = IF current_mode = "Rest" THEN now ELSE start_time
       /\ last_tick' = IF current_mode = "Rest" THEN now ELSE last_tick
       /\ ui' = IF main_window.alive THEN [ui EXCEPT !.rest_seconds = seconds] ELSE ui
       /\ UNCHANGED <<is_paused, work_duration, water_interval, walk_interval,
                      eye_rest_count, current_mode, current_rest_type,
                      overlay_windows,
                      main_window_visible, drag_anchor, now, timer_due,
                      monitors, main_window, overlay_epoch>>
on_apply_rest_seconds(arg) ==
    LET seconds == clamp(arg, 5, 300)
    IN /\ rest_duration' = from_secs(seconds)
       /\ ui' = IF main_window.alive THEN [ui EXCEPT !.rest_seconds = seconds] ELSE ui
       /\ UNCHANGED <<is_paused, work_duration, water_interval, walk_interval,
                      eye_rest_count, current_mode, current_rest_type,
                      start_time, last_tick, overlay_windows,
                      main_window_visible, drag_anchor, now, timer_due,
                      monitors, main_window, overlay_epoch>>

on_apply_water_interval(arg) ==
    LET interval == clamp(arg, 1, 20)
    IN /\ water_interval' = interval
       /\ ui' = IF main_window.alive THEN [ui EXCEPT !.water_interval = interval] ELSE ui
       /\ UNCHANGED <<is_paused, work_duration, rest_duration, walk_interval,
                      eye_rest_count, current_mode, current_rest_type,
                      start_time, last_tick, overlay_windows,
                      main_window_visible, drag_anchor, now, timer_due,
                      monitors, main_window, overlay_epoch>>

\* mutant of on_apply_walk_interval: the rest type resolved again with the
\* new interval
on_apply_walk_interval_reresolves(arg) ==
    LET interval == clamp(arg, 1, 20)
    IN /\ walk_interval' = interval
       /\ current_rest_type' = select_rest_type(eye_rest_count, interval, water_interval)
       /\ ui' = IF main_window.alive THEN [ui EXCEPT !.walk_interval = interval] ELSE ui
       /\ UNCHANGED <<is_paused, work_duration, rest_duration, water_interval,
                      eye_rest_count, current_mode,
                      start_time, last_tick, overlay_windows,
                      main_window_visible, drag_anchor, now, timer_due,
                      monitors, main_window, overlay_epoch>>
on_apply_walk_interval(arg) ==
    LET interval == clamp(arg, 1, 20)
    IN /\ walk_interval' = interval
       /\ ui' = IF main_window.alive THEN [ui EXCEPT !.walk_interval = interval] ELSE ui
       /\ UNCHANGED <<is_paused, work_duration, rest_duration, water_interval,
                      eye_rest_count, current_mode, current_rest_type,
                      start_time, last_tick, overlay_windows,
                      main_window_visible, drag_anchor, now, timer_due,
                      monitors, main_window, overlay_epoch>>

\* PhysicalPosition::to_logical(scale_factor)
to_logical(position, scale) ==
    <<(position[1] * ScaleUnit) \div scale, (position[2] * ScaleUnit) \div scale>>

\* window.set_position(LogicalPosition): the physical position it becomes
to_physical(position, scale) ==
    <<(position[1] * scale) \div ScaleUnit, (position[2] * scale) \div ScaleUnit>>

on_start_window_drag(position) ==
    /\ IF ~main_window.alive THEN UNCHANGED drag_anchor
       ELSE LET window_pos == to_logical(main_window.position, main_window.scale)
                pointer_screen_pos == <<window_pos[1] + position[1],
                                        window_pos[2] + position[2]>>
            IN /\ drag_anchor_window_pos' = Some(window_pos)
               /\ drag_anchor_pointer_screen_pos' = Some(pointer_screen_pos)
    /\ UNCHANGED <<is_paused, config, eye_rest_count, current_mode,
                   current_rest_type, start_time, last_tick, overlay_windows,
                   main_window_visible, outside>>

\* mutant of dragged_position: the window's corner put under the pointer
dragged_position_at_pointer(anchor_window_pos, anchor_pointer_screen_pos, pointer_screen_pos) == pointer_screen_pos
\* the position on_update_window_drag gives the window
dragged_position(anchor_window_pos, anchor_pointer_screen_pos, pointer_screen_pos) ==
    LET delta_x == pointer_screen_pos[1] - anchor_pointer_screen_pos[1]
        delta_y == pointer_screen_pos[2] - anchor_pointer_screen_pos[2]
    IN <<anchor_window_pos[1] + delta_x, anchor_window_pos[2] + delta_y>>

\* mutant of on_update_window_drag: an absent anchor read as the origin
on_update_window_drag_unanchored(position) ==
    /\ IF ~main_window.alive
       THEN UNCHANGED main_window
       ELSE LET window_pos == to_logical(main_window.position, main_window.scale)
                pointer_screen_pos == <<window_pos[1] + position[1],
                                        window_pos[2] + position[2]>>
                anchor_window_pos ==
                    IF drag_anchor_window_pos = None THEN <<0, 0>>
                    ELSE drag_anchor_window_pos[1]
                anchor_pointer_screen_pos ==
                    IF drag_anchor_pointer_screen_pos = None THEN <<0, 0>>
                    ELSE drag_anchor_pointer_screen_pos[1]
            IN main_window' = [main_window EXCEPT !.position =
                  to_physical(dragged_position(anchor_window_pos,
                                               anchor_pointer_screen_pos,
                                               pointer_screen_pos),
                              main_window.scale)]
    /\ UNCHANGED <<app_state, now, timer_due, monitors, ui, overlay_epoch>>
on_update_window_drag(position) ==
    /\ IF \/ ~main_window.alive
          \/ drag_anchor_window_pos = None
          \/ drag_anchor_pointer_screen_pos = None
       THEN UNCHANGED main_window
       ELSE LET window_pos == to_logical(main_window.position, main_window.scale)
                pointer_screen_pos == <<window_pos[1] + position[1],
                                        window_pos[2] + position[2]>>
            IN main_window' = [main_window EXCEPT !.position =
                  to_physical(dragged_position(drag_anchor_window_pos[1],
                                               drag_anchor_pointer_screen_pos[1],
                                               pointer_screen_pos),
                              main_window.scale)]
    /\ UNCHANGED <<app_state, now, timer_due, monitors, ui, overlay_epoch>>

\* mutant of on_end_window_drag: only the window anchor cleared
on_end_window_drag_half ==
    /\ drag_anchor_window_pos' = None
    /\ UNCHANGED <<is_paused, config, eye_rest_count, current_mode,
                   current_rest_type, start_time, last_tick, overlay_windows,
                   main_window_visible, drag_anchor_pointer_screen_pos, outside>>
on_end_window_drag ==
    /\ drag_anchor_window_pos' = None
    /\ drag_anchor_pointer_screen_pos' = None
    /\ UNCHANGED <<is_paused, config, eye_rest_count, current_mode,
                   current_rest_type, start_time, last_tick, overlay_windows,
                   main_window_visible, outside>>

on_minimize_to_tray ==
    /\ IF main_window.alive
       THEN /\ main_window' = [main_window EXCEPT !.shown = FALSE]
            /\ main_window_visible' = FALSE
       ELSE UNCHANGED <<main_window, main_window_visible>>
    /\ UNCHANGED <<is_paused, config, eye_rest_count, current_mode,
                   current_rest_type, start_time, last_tick, overlay_windows,
                   drag_anchor, now, timer_due, monitors, ui, overlay_epoch>>

(***************************************************************************)
(* The tray poller (50 ms timer): one pending menu event and one pending   *)
(* left click of the tray icon, if any.  The quit item ends the event      *)
(* loop: the behaviour takes no further step, which every behaviour may    *)
(* do at any state.                                                        *)
(***************************************************************************)
MenuEvents == {"none", "show", "quit"}

tray_poll(menu, click) ==
    /\ menu # "none" \/ click
    /\ IF main_window.alive /\ (menu = "show" \/ click)
       THEN /\ main_window' = [main_window EXCEPT !.shown = TRUE]
            /\ main_window_visible' = TRUE
       ELSE UNCHANGED <<main_window, main_window_visible>>
    /\ UNCHANGED <<is_paused, config, eye_rest_count, current_mode,
                   current_rest_type, start_time, last_tick, overlay_windows,
                   drag_anchor, now, timer_due, monitors, ui, overlay_epoch>>

(***************************************************************************)
(* The Monitor Source: displays are plugged, unplugged, reconfigured.      *)
(***************************************************************************)
monitors_change(layout) ==
    /\ layout # monitors
    /\ monitors' = layout
    /\ UNCHANGED <<app_state, now, timer_due, main_window, ui, overlay_epoch>>

(***************************************************************************)
(* The program: every callback with its inputs.                            *)
(***************************************************************************)
WorkMinutesArgs == {0, 1}
RestSecondsArgs == {0, 300}
IntervalArgs == {0}
DragOffsets == {<<10, 10>>}
\* late firings of the timer, in whole seconds
LateSecs == {60}
Delays == {0} \cup {from_secs(s) : s \in LateSecs}
Outcomes == {Err, Ok(ScaleUnit)}

Next ==
    \/ Elapse(MaxFine, MaxNowSecs) /\ UNCHANGED pause_log
    \/ \E delay \in Delays :
          timer_tick(delay, MaxNowSecs, Outcomes) /\ UNCHANGED pause_log
    \/ on_toggle_timer /\ UNCHANGED pause_log
    \/ on_secondary_action /\ UNCHANGED pause_log
    \/ \E arg \in WorkMinutesArgs : on_apply_work_minutes(arg) /\ UNCHANGED pause_log
    \/ \E arg \in RestSecondsArgs : on_apply_rest_seconds(arg) /\ UNCHANGED pause_log
    \/ \E arg \in IntervalArgs : on_apply_water_interval(arg) /\ UNCHANGED pause_log
    \/ \E arg \in IntervalArgs : on_apply_walk_interval(arg) /\ UNCHANGED pause_log
    \/ \E position \in DragOffsets :
          on_start_window_drag(position) /\ UNCHANGED pause_log
    \/ \E position \in DragOffsets :
          on_update_window_drag(position) /\ UNCHANGED pause_log
    \/ on_end_window_drag /\ UNCHANGED pause_log
    \/ on_minimize_to_tray /\ UNCHANGED pause_log
    \/ \E menu \in MenuEvents, click \in BOOLEAN :
          tray_poll(menu, click) /\ UNCHANGED pause_log
    \/ \E layout \in Layouts : monitors_change(layout) /\ UNCHANGED pause_log

Spec == Init /\ [][Next]_vars

(***************************************************************************)
(* The countdown alone, at a finer time scale: the timer, pause, reset and *)
(* the two durations.  pause_log observes the latest pause: the value of   *)
(* now - start_time when it began, the paused ticks since, and the value   *)
(* of now - start_time at the resume; a reset or a new work duration       *)
(* during the pause ends the observation, the first tick after the resume  *)
(* too.                                                                    *)
(***************************************************************************)
TimingLateSecs == {5, 60}
TimingDelays == {0} \cup {from_secs(s) : s \in TimingLateSecs}

Min(a, b) == IF a <= b THEN a ELSE b

log_toggle ==
    pause_log' =
        IF ~is_paused
        THEN Some([elapsed |-> now - start_time, ticks |-> 0,
                   resumed |-> FALSE, after |-> 0])
        ELSE IF pause_log = None THEN None
        ELSE Some([pause_log[1] EXCEPT !.resumed = TRUE,
                                       !.after = now - start_time])

log_tick ==
    pause_log' =
        IF pause_log = None \/ pause_log[1].resumed THEN None
        ELSE Some([pause_log[1] EXCEPT
                     !.ticks = Min(pause_log[1].ticks + 1, MaxLoggedTicks)])

NextTiming ==
    \/ Elapse(TimingFine, TimingSecs) /\ UNCHANGED pause_log
    \/ \E delay \in TimingDelays :
          timer_tick(delay, TimingSecs, Outcomes) /\ log_tick
    \/ on_toggle_timer /\ log_toggle
    \/ on_secondary_action /\ pause_log' = None
    \/ \E arg \in WorkMinutesArgs : on_apply_work_minutes(arg) /\ pause_log' = None
    \/ \E arg \in RestSecondsArgs : on_apply_rest_seconds(arg) /\ UNCHANGED pause_log

\* one display is connected throughout
InitTiming == Init /\ monitors = <<MonA>>

SpecTiming == InitTiming /\ [][NextTiming]_vars

(***************************************************************************)
(* The escalation policy on its inputs: a Work period about to end, after  *)
(* any number of rests and with any intervals the configuration callbacks  *)
(* can leave (1..20 each).                                                 *)
(***************************************************************************)
Intervals == 1..20

InitPolicy ==
    /\ is_paused = FALSE
    /\ work_duration = from_secs(60)
    /\ rest_duration = from_secs(20)
    /\ water_interval \in Intervals
    /\ walk_interval \in Intervals
    /\ eye_rest_count \in 0..(MaxCount - 1)
    /\ current_mode = "Work"
    /\ current_rest_type \in RestTypes
    /\ start_time = 0
    /\ last_tick = 0
    /\ overlay_windows = <<>>
    /\ main_window_visible = TRUE
    /\ drag_anchor_window_pos = None
    /\ drag_anchor_pointer_screen_pos = None
    /\ now = 0
    /\ timer_due = TickInterval
    /\ monitors = <<MonA>>
    /\ main_window = [alive |-> TRUE, shown |-> TRUE, position |-> <<100, 100>>,
                      scale |-> ScaleUnit]
    /\ ui = [status_text |-> "Focus Time", time_display |-> <<>>,
             progress |-> <<>>, is_paused |-> FALSE, work_minutes |-> 1,
             rest_seconds |-> 20, water_interval |-> water_interval,
             walk_interval |-> walk_interval]
    /\ overlay_epoch = eye_rest_count
    /\ pause_log = None

NextPolicy ==
    \E delay \in Delays :
        timer_tick(delay, PolicySecs, {Ok(ScaleUnit)}) /\ UNCHANGED pause_log

SpecPolicy == InitPolicy /\ [][NextPolicy]_vars

(***************************************************************************)
(* The overlay manager on its inputs: show_rest_overlay, update_rest_overlay *)
(* and hide_rest_overlay called in any order on the collection the calls   *)
(* before have left, while the displays come and go.  A creation fails or  *)
(* gives a window of either scale factor; the second monitor_rects() of a  *)
(* show is the first one's answer or what the displays have become.        *)
(***************************************************************************)
OverlayLayouts == Layouts \cup {<<MonC, MonA>>}
Remainings == {from_secs(20), from_secs(5) - 1}

OverlayIO ==
    {[ms |-> monitors, again |-> a, created |-> c, fallback |-> f,
      epoch |-> overlay_epoch + 1] :
        a \in {monitors, <<>>, <<MonA>>},
        c \in [1..Len(monitors) -> CreationOutcomes], f \in CreationOutcomes}

call_show_rest_overlay(io) ==
    /\ overlay_epoch < MaxShows
    /\ overlay_windows' = show_rest_overlay(overlay_windows, rest_duration, "eye",
                              compose_message(current_rest_type), io)
    /\ overlay_epoch' = io.epoch
    /\ UNCHANGED <<is_paused, config, eye_rest_count, current_mode,
                   current_rest_type, start_time, last_tick, main_window_visible,
                   drag_anchor, now, timer_due, monitors, main_window, ui>>

call_update_rest_overlay(remaining) ==
    /\ overlay_windows' = update_rest_overlay(overlay_windows, remaining)
    /\ UNCHANGED <<is_paused, config, eye_rest_count, current_mode,
                   current_rest_type, start_time, last_tick, main_window_visible,
                   drag_anchor, outside>>

call_hide_rest_overlay ==
    /\ overlay_windows' = hide_rest_overlay(overlay_windows)
    /\ UNCHANGED <<is_paused, config, eye_rest_count, current_mode,
                   current_rest_type, start_time, last_tick, main_window_visible,
                   drag_anchor, outside>>

NextOverlay ==
    \/ \E io \in OverlayIO : call_show_rest_overlay(io) /\ UNCHANGED pause_log
    \/ \E remaining \in Remainings :
          call_update_rest_overlay(remaining) /\ UNCHANGED pause_log
    \/ call_hide_rest_overlay /\ UNCHANGED pause_log
    \/ \E layout \in OverlayLayouts : monitors_change(layout) /\ UNCHANGED pause_log

InitOverlay == Init

SpecOverlay == InitOverlay /\ [][NextOverlay]_vars

(***************************************************************************)
(* The countdown while the displays come and go, every overlay window      *)
(* created without failure: the timer run a minute late each time, the two *)
(* durations set, the Monitor Source changing its answer.                  *)
(***************************************************************************)
NextDisplays ==
    \/ \E delay \in Delays :
          timer_tick(delay, MaxNowSecs, {Ok(ScaleUnit)}) /\ UNCHANGED pause_log
    \/ \E arg \in WorkMinutesArgs : on_apply_work_minutes(arg) /\ UNCHANGED pause_log
    \/ \E arg \in RestSecondsArgs : on_apply_rest_seconds(arg) /\ UNCHANGED pause_log
    \/ \E layout \in Layouts : monitors_change(layout) /\ UNCHANGED pause_log

SpecDisplays == Init /\ [][NextDisplays]_vars

(***************************************************************************)
(* The configuration callbacks on their arguments: values below, inside    *)
(* and above each range, applied in any order, and the tick that ends a    *)
(* Work period with the intervals they have left.                          *)
(***************************************************************************)
ConfigArgs == {-1000, -1, 0, 3, 7, 21, 181, 301, 1000}

NextConfig ==
    \/ \E arg \in ConfigArgs : on_apply_work_minutes(arg) /\ UNCHANGED pause_log
    \/ \E arg \in ConfigArgs : on_apply_rest_seconds(arg) /\ UNCHANGED pause_log
    \/ \E arg \in ConfigArgs : on_apply_water_interval(arg) /\ UNCHANGED pause_log
    \/ \E arg \in ConfigArgs : on_apply_walk_interval(arg) /\ UNCHANGED pause_log
    \/ \E delay \in Delays :
          timer_tick(delay, PolicySecs, {Ok(ScaleUnit)}) /\ UNCHANGED pause_log

SpecConfig == InitTiming /\ [][NextConfig]_vars

(***************************************************************************)
(* Properties.                                                             *)
(***************************************************************************)
\* a step in which the countdown timer fired: no other step moves timer_due
TimerFired == timer_due' # timer_due

WorkToRest == current_mode = "Work" /\ current_mode' = "Rest"
RestToWork == current_mode = "Rest" /\ current_mode' = "Work"

\* C1: the mode goes from Work to Rest only in a step of the countdown timer
\* taken unpaused with now - start_time >= work_duration, every such step
\* (the main window handle present) does it and sets start_time = now; no
\* other operation does.
C1_WorkToRestOnlyByDueTick ==
    [][ /\ WorkToRest =>
             /\ TimerFired
             /\ ~is_paused
             /\ now' - start_time >= work_duration
             /\ start_time' = now'
        /\ ( /\ TimerFired
             /\ ~is_paused
             /\ main_window.alive
             /\ current_mode = "Work"
             /\ now' - start_time >= work_duration )
           => (current_mode' = "Rest" /\ start_time' = now')
      ]_vars

\* a Rest that has just begun, exactly at the end of the work duration
C1_Witness ==
    /\ current_mode = "Rest"
    /\ start_time = now
    /\ timer_due = now + TickInterval
    /\ ui.status_text = "Rest your eyes!"
    /\ ~is_paused

\* C2: eye_rest_count starts at 0, grows by exactly 1 in every Work->Rest
\* transition and is left alone by every other step, so it equals the
\* number of Work->Rest transitions made (each makes one show_rest_overlay
\* call, counted by overlay_epoch).
C2_CountIsTransitions ==
    /\ eye_rest_count = 0
    /\ [][ IF WorkToRest THEN eye_rest_count' = eye_rest_count + 1
                         ELSE eye_rest_count' = eye_rest_count ]_vars
    /\ [](eye_rest_count = overlay_epoch)

\* after the second Work->Rest transition
C2_Witness == eye_rest_count = 2 /\ current_mode = "Rest"

Divides(k, n) == \E q \in 0..n : n = q * k

\* C3: at a Work->Rest transition the rest type follows from the incremented
\* counter c and the intervals: Walk if walk_interval divides c, else Water
\* if water_interval divides c, else EyeRest; so (6, walk 3, water 2) is
\* Walk, (4, 3, 2) is Water and c = 1 with both intervals >= 2 is EyeRest.
C3_RestTypeRule ==
    current_mode = "Rest" =>
        /\ current_rest_type \in RestTypes
        /\ current_rest_type =
              IF Divides(walk_interval, eye_rest_count) THEN "Walk"
              ELSE IF Divides(water_interval, eye_rest_count) THEN "Water"
              ELSE "EyeRest"
        /\ (eye_rest_count = 6 /\ walk_interval = 3 /\ water_interval = 2)
              => current_rest_type = "Walk"
        /\ (eye_rest_count = 4 /\ walk_interval = 3 /\ water_interval = 2)
              => current_rest_type = "Water"
        /\ (eye_rest_count = 1 /\ walk_interval >= 2 /\ water_interval >= 2)
              => current_rest_type = "EyeRest"

\* the sixth rest with walk every 3 and water every 2: both divide
C3_Witness ==
    /\ current_mode = "Rest"
    /\ eye_rest_count = 6 /\ walk_interval = 3 /\ water_interval = 2
    /\ current_rest_type = "Walk"

\* C4: the mode goes from Rest to Work only in a step of the countdown timer
\* taken unpaused with now - start_time >= rest_duration, or by the
\* secondary action; an unpaused tick with now - start_time < rest_duration
\* leaves the Rest on.
C4_RestToWorkOnlyByDueTickOrSkip ==
    [][ /\ RestToWork =>
             \/ TimerFired /\ ~is_paused /\ now' - start_time >= rest_duration
             \/ ~TimerFired /\ on_secondary_action
        /\ ( /\ TimerFired
             /\ ~is_paused
             /\ current_mode = "Rest"
             /\ now' - start_time < rest_duration )
           => current_mode' = "Rest"
      ]_vars

\* the first Rest just ended by a tick, a rest duration or more after it began
C4_Witness ==
    /\ current_mode = "Work"
    /\ eye_rest_count = 1
    /\ ~is_paused
    /\ start_time = now /\ last_tick = now /\ timer_due = now + TickInterval
    /\ now >= from_secs(60) + rest_duration

\* C5: the secondary action taken in Rest gives mode Work at once, with no
\* overlay left and eye_rest_count as it was, whatever the remaining rest
\* time and paused or not.
C5_SkipEndsRest ==
    [][ (current_mode = "Rest" /\ on_secondary_action) =>
            /\ current_mode' = "Work"
            /\ overlay_windows' = <<>>
            /\ eye_rest_count' = eye_rest_count
      ]_vars

\* Work again after the first Rest, paused, earlier than any tick could have
\* ended that Rest (it began 60 s or more after the start and lasts 5 s or
\* more): the Rest was skipped, while paused
C5_Witness ==
    /\ current_mode = "Work"
    /\ eye_rest_count = 1
    /\ is_paused
    /\ overlay_windows = <<>>
    /\ start_time = now
    /\ now < from_secs(60 + 5)

\* C6: in every reachable state start_time <= now, so that now - start_time
\* is never negative.
C6_StartTimeNotAfterNow == start_time <= now

\* C7: a pause that is resumed, with any number of paused ticks in it and no
\* reset and no new work duration, leaves now - start_time at the resume
\* within one tick interval of its value at the pause.
C7_PauseKeepsElapsed ==
    (pause_log # None /\ pause_log[1].resumed) =>
        /\ pause_log[1].after - pause_log[1].elapsed <= TickInterval
        /\ pause_log[1].elapsed - pause_log[1].after <= TickInterval

\* just resumed after a pause of five seconds or more with two or more paused
\* ticks in it, now - start_time not what it was at the pause
C7_Witness ==
    /\ pause_log # None
    /\ pause_log[1].resumed
    /\ ~is_paused
    /\ pause_log[1].ticks = MaxLoggedTicks
    /\ pause_log[1].after # pause_log[1].elapsed
    /\ now >= from_secs(5)

\* C8: a tick taken while paused advances start_time by now - last_tick and
\* sets last_tick to now; mode, eye_rest_count, rest type, durations,
\* intervals and overlays stay as they are, also when now - start_time has
\* reached the limit of the mode.
C8_PausedTickOnlyRebases ==
    [][ (is_paused /\ TimerFired) =>
            /\ start_time' = start_time + (now' - last_tick)
            /\ last_tick' = now'
            /\ UNCHANGED <<current_mode, eye_rest_count, current_rest_type,
                           config, overlay_windows, is_paused>>
      ]_vars

\* a paused tick has just run, late, with the limit of the mode reached
C8_Witness ==
    /\ is_paused
    /\ last_tick = now /\ timer_due = now + TickInterval
    /\ now - start_time >= current_limit
    /\ now % UnitsPerSec = 0 /\ now >= from_secs(5)

\* the windows of the second collection that are not in the first
created_windows(before, after) ==
    {after[i].window : i \in 1..Len(after)}
        \ {before[i].window : i \in 1..Len(before)}

\* C9: in Work there is no overlay; overlay windows are created only in the
\* step from Work to Rest, and every step from Rest to Work, by a tick or by
\* the secondary action, leaves none.
C9_NoOverlayInWork ==
    /\ [](current_mode = "Work" => overlay_windows = <<>>)
    /\ [][ /\ created_windows(overlay_windows, overlay_windows') # {}
              => WorkToRest
           /\ RestToWork => overlay_windows' = <<>>
         ]_vars

\* Work again after a Rest that show_rest_overlay was called for, the main
\* window shown again
C9_Witness ==
    /\ current_mode = "Work"
    /\ eye_rest_count >= 1
    /\ overlay_epoch >= 1
    /\ overlay_windows = <<>>
    /\ main_window.shown

\* the physical extent of a window of the given logical size
physical_extent(logical, scale) == (logical * scale) \div ScaleUnit

\* C10: a show_rest_overlay for which monitor_rects() returns n >= 1 monitors
\* and every creation succeeds leaves exactly n overlays, the i-th on the
\* i-th monitor returned: at its origin, covering it, shown; none of the
\* windows of the collection before the call is in it.
C10_ShowOnePerMonitor ==
    [][ \A io \in OverlayIO :
          ( /\ Len(io.ms) >= 1
            /\ \A i \in 1..Len(io.ms) : io.created[i].ok
            /\ call_show_rest_overlay(io) )
          => /\ Len(overlay_windows') = Len(io.ms)
             /\ \A i \in 1..Len(io.ms) :
                  LET entry == overlay_windows'[i]
                  IN /\ entry.monitor = io.ms[i]
                     /\ entry.position = <<io.ms[i].x, io.ms[i].y>>
                     /\ physical_extent(entry.size[1], entry.scale) >= io.ms[i].width
                     /\ physical_extent(entry.size[2], entry.scale) >= io.ms[i].height
                     /\ entry.visible
             /\ \A i, j \in 1..Len(io.ms) :
                  i # j => overlay_windows'[i].window # overlay_windows'[j].window
             /\ created_windows(overlay_windows, overlay_windows')
                  = {overlay_windows'[i].window : i \in 1..Len(io.ms)}
      ]_vars

\* two displays, the second at a scale factor of 1.25, the two overlays of
\* the latest show on them, an earlier show behind it
C10_Witness ==
    /\ overlay_epoch >= 2
    /\ monitors = <<MonA, MonB>>
    /\ Len(overlay_windows) = 2
    /\ overlay_windows[2].scale = 125
    /\ \A i \in 1..2 :
          /\ overlay_windows[i].window = <<overlay_epoch, i>>
          /\ overlay_windows[i].monitor = monitors[i]
          /\ overlay_windows[i].visible

\* the entry is on the monitor: at its origin, covering it, shown
fitted_to(entry, m) ==
    /\ entry.monitor = m
    /\ entry.position = <<m.x, m.y>>
    /\ physical_extent(entry.size[1], entry.scale) >= m.width
    /\ physical_extent(entry.size[2], entry.scale) >= m.height
    /\ entry.visible

\* C11 as amended: a show_rest_overlay to which monitor_rects() returns no
\* monitor, in the loop and again in the fallback block, and whose fallback
\* creation succeeds leaves exactly one overlay, a new window fitted to the
\* virtual screen rectangle; when that creation fails it leaves none.
C11_NoMonitorsFallback ==
    [][ \A io \in OverlayIO :
          ( /\ io.ms = <<>>
            /\ io.again = <<>>
            /\ call_show_rest_overlay(io) )
          => IF io.fallback.ok
             THEN /\ Len(overlay_windows') = 1
                  /\ fitted_to(overlay_windows'[1], virtual_screen_rect)
                  /\ created_windows(overlay_windows, overlay_windows')
                       = {overlay_windows'[1].window}
             ELSE overlay_windows' = <<>>
      ]_vars

\* no display, and the one overlay of the latest show on the virtual screen
C11_Witness ==
    /\ monitors = <<>>
    /\ overlay_epoch >= 1
    /\ Len(overlay_windows) = 1
    /\ overlay_windows[1].window = <<overlay_epoch, 0>>
    /\ fitted_to(overlay_windows[1], virtual_screen_rect)

\* C11 as stated: a show_rest_overlay to which monitor_rects() returns no
\* monitor always leaves exactly one overlay, fitted to the virtual screen
\* rectangle.
C11_AlwaysOneOverlay ==
    [][ \A io \in OverlayIO :
          ( /\ io.ms = <<>>
            /\ io.again = <<>>
            /\ call_show_rest_overlay(io) )
          => /\ Len(overlay_windows') = 1
             /\ fitted_to(overlay_windows'[1], virtual_screen_rect)
      ]_vars

\* the creations of the per-monitor loop that succeeded
succeeded(io) == {i \in 1..Len(io.ms) : io.created[i].ok}

\* C12: in show_rest_overlay a failed creation skips its monitor only: when
\* k >= 1 of the n creations succeed the call leaves exactly k overlays, in
\* the order of the monitors, each fitted to a monitor whose creation
\* succeeded, and no fallback window; the fallback window is created exactly
\* when the loop created none and the fallback creation succeeds, and when
\* that fails too the call still returns, leaving no overlay.
C12_FailedCreationSkipsMonitor ==
    /\ [](\A io \in OverlayIO :
            Len(show_rest_overlay(overlay_windows, rest_duration, "eye",
                                  compose_message(current_rest_type), io))
              \in 0..Max(Len(io.ms), 1))
    /\ [][ \A io \in OverlayIO :
             call_show_rest_overlay(io) =>
               LET after == overlay_windows'
                   number(j) == after[j].window[2]
               IN /\ \A j \in 1..Len(after) : after[j].window[1] = io.epoch
                  /\ IF succeeded(io) # {}
                     THEN /\ Len(after) = Cardinality(succeeded(io))
                          /\ {number(j) : j \in 1..Len(after)} = succeeded(io)
                          /\ \A i, j \in 1..Len(after) :
                                i < j => number(i) < number(j)
                          /\ \A j \in 1..Len(after) :
                                fitted_to(after[j], io.ms[number(j)])
                     ELSE IF io.fallback.ok
                          THEN /\ Len(after) = 1
                               /\ number(1) = 0
                          ELSE after = <<>>
         ]_vars

\* two displays, the creation for the first failed: the one overlay of the
\* latest show is on the second
C12_Witness ==
    /\ Len(monitors) = 2
    /\ overlay_epoch >= 2
    /\ Len(overlay_windows) = 1
    /\ overlay_windows[1].window = <<overlay_epoch, 2>>
    /\ fitted_to(overlay_windows[1], monitors[2])

\* C13: hide_rest_overlay returns from any overlay collection, the empty one
\* too, leaving no overlay, and called again on what it has left it leaves
\* the same.
C13_HideIdempotent ==
    LET once == hide_rest_overlay(overlay_windows)
        twice == hide_rest_overlay(once)
    IN /\ once = <<>>
       /\ twice = once

\* two overlays up, on which hide_rest_overlay is about to act
C13_Witness ==
    /\ Len(overlay_windows) = 2
    /\ \A i \in 1..2 : overlay_windows[i].visible
    /\ hide_rest_overlay(overlay_windows) # overlay_windows

\* a run of the countdown timer, unpaused, in Rest and staying in Rest
RestTick ==
    /\ TimerFired
    /\ ~is_paused
    /\ main_window.alive
    /\ current_mode = "Rest"
    /\ current_mode' = "Rest"

\* C14: every unpaused tick in Rest that is no transition calls
\* update_rest_overlay, which creates and destroys nothing: the collection
\* has the same windows on the same monitor rectangles after it, whatever
\* monitor_rects() would return now, and an empty collection stays empty.
C14_UpdateKeepsOverlays ==
    [][ RestTick =>
          /\ overlay_windows' =
                update_rest_overlay(overlay_windows,
                                    rest_duration - (now' - start_time))
          /\ Len(overlay_windows') = Len(overlay_windows)
          /\ \A i \in 1..Len(overlay_windows) :
                /\ overlay_windows'[i].window = overlay_windows[i].window
                /\ overlay_windows'[i].monitor = overlay_windows[i].monitor
                /\ fitted_to(overlay_windows'[i], overlay_windows[i].monitor)
      ]_vars

\* in Rest for a minute or more, the overlay of the one display there was
\* when the Rest began, its countdown refreshed by the tick that has just
\* run, while two displays are connected now
C14_Witness ==
    /\ current_mode = "Rest"
    /\ Len(overlay_windows) = 1
    /\ Len(monitors) = 2
    /\ now - start_time >= from_secs(60)
    /\ now - start_time < rest_duration
    /\ overlay_windows[1].countdown
          = format_duration_mm_ss(rest_duration - (now - start_time))
    /\ last_tick = now /\ ~is_paused

nearest(v, lo, hi) ==
    CHOOSE b \in lo..hi : /\ v < lo => b = lo
                          /\ v > hi => b = hi
                          /\ v \in lo..hi => b = v

\* C16: in every reachable state work_duration is a whole number of minutes
\* in 1..180, rest_duration a whole number of seconds in 5..300 and the two
\* intervals are in 1..20 (never zero); each configuration callback stores
\* the value of its range nearest to its argument.
C16_ConfigInRange ==
    /\ [](/\ \E m \in 1..180 : work_duration = from_secs(60 * m)
          /\ \E k \in 5..300 : rest_duration = from_secs(k)
          /\ water_interval \in 1..20
          /\ walk_interval \in 1..20)
    /\ [][ \A arg \in ConfigArgs :
             /\ on_apply_work_minutes(arg)
                  => work_duration' = from_secs(60 * nearest(arg, 1, 180))
             /\ on_apply_rest_seconds(arg)
                  => rest_duration' = from_secs(nearest(arg, 5, 300))
             /\ on_apply_water_interval(arg)
                  => water_interval' = nearest(arg, 1, 20)
             /\ on_apply_walk_interval(arg)
                  => walk_interval' = nearest(arg, 1, 20)
         ]_vars

\* every setting at a bound of its range, which only an argument outside
\* the range gives here, and a Rest begun with these intervals
C16_Witness ==
    /\ work_duration = from_secs(60 * 1)
    /\ rest_duration = from_secs(300)
    /\ water_interval = 1
    /\ walk_interval = 20
    /\ current_mode = "Rest"
    /\ current_rest_type = "Water"

\* C17: on_apply_work_minutes in Work sets start_time and last_tick to now,
\* paused or not; in Rest it changes work_duration and leaves start_time,
\* last_tick, the mode and the overlays as they are.
C17_ApplyWorkMinutes ==
    [][ \A arg \in WorkMinutesArgs :
          on_apply_work_minutes(arg) =>
            /\ work_duration' = from_secs(60 * nearest(arg, 1, 180))
            /\ now' = now
            /\ IF current_mode = "Work"
               THEN /\ start_time' = now
                    /\ last_tick' = now
                    /\ current_mode' = "Work"
               ELSE UNCHANGED <<start_time, last_tick, current_mode,
                                overlay_windows>>
      ]_vars

\* paused in Work, a one-minute work duration applied between two ticks:
\* last_tick is now, which no tick has made it
C17_Witness ==
    /\ current_mode = "Work"
    /\ is_paused
    /\ work_duration = from_secs(60)
    /\ now > 0
    /\ start_time = now /\ last_tick = now
    /\ timer_due < now + TickInterval

\* C18: on_secondary_action in Work sets start_time to now and changes
\* nothing else of the state: mode, eye_rest_count, rest type, is_paused,
\* last_tick, durations, intervals and the overlays (none) stay.
C18_ResetInWork ==
    [][ (current_mode = "Work" /\ on_secondary_action) =>
          /\ start_time' = now
          /\ overlay_windows = <<>>
          /\ UNCHANGED <<current_mode, eye_rest_count, current_rest_type,
                         is_paused, last_tick, config, overlay_windows,
                         main_window_visible, drag_anchor, now>>
      ]_vars

\* the first Work period, never left, restarted between two ticks
C18_Witness ==
    /\ current_mode = "Work"
    /\ eye_rest_count = 0
    /\ work_duration = from_secs(20 * 60)
    /\ start_time = now
    /\ last_tick < now

\* C19: after every step from Rest to Work, by a tick or by the secondary
\* action, the main window is shown and main_window_visible is true, also
\* when it had been minimized to the tray before or during the Rest.
C19_WindowShownAfterRest ==
    [][ RestToWork => (main_window'.shown /\ main_window_visible') ]_vars

\* a Rest has just been ended by a tick, and the main window is up
C19_Witness ==
    /\ current_mode = "Work"
    /\ eye_rest_count >= 1
    /\ start_time = now /\ last_tick = now /\ timer_due = now + TickInterval
    /\ main_window.shown
    /\ main_window_visible
    /\ drag_anchor_window_pos = None

\* C20: a tick does one mode transition at most: an unpaused tick that comes
\* in Work with now - start_time >= work_duration + rest_duration enters
\* Rest, counts it and starts it at the time of the tick; the Rest then
\* stays through every unpaused tick with now - start_time < rest_duration
\* and ends only by a later one with now - start_time >= rest_duration or by
\* the secondary action.
C20_LateTickKeepsRest ==
    [][ /\ ( /\ TimerFired
             /\ ~is_paused
             /\ current_mode = "Work"
             /\ now' - start_time >= work_duration + rest_duration )
           => /\ current_mode' = "Rest"
              /\ start_time' = now'
              /\ now' - start_time' < rest_duration
              /\ eye_rest_count' = eye_rest_count + 1
        /\ (TimerFired /\ ~is_paused /\ WorkToRest) => start_time' = now'
        /\ ( /\ TimerFired
             /\ ~is_paused
             /\ current_mode = "Rest"
             /\ now' - start_time < rest_duration )
           => current_mode' = "Rest"
        /\ (TimerFired /\ RestToWork) => now' - start_time >= rest_duration
      ]_vars

\* the first Rest, begun by the tick that has just run at 65 s, a minute
\* late, the work duration one minute and the rest duration five seconds
C20_Witness ==
    /\ current_mode = "Rest"
    /\ eye_rest_count = 1
    /\ ~is_paused
    /\ work_duration = from_secs(60)
    /\ rest_duration = from_secs(5)
    /\ now = from_secs(65)
    /\ start_time = now /\ last_tick = now /\ timer_due = now + TickInterval

(***************************************************************************)
(* The cycle left to itself: the repeating timer keeps firing, on time or  *)
(* five seconds late, on an unpaused application whose durations were set  *)
(* to one minute of work and five or twenty seconds of rest, and nothing   *)
(* else is called.  Instants stop at LiveSecs.                             *)
(***************************************************************************)
LiveLateSecs == {5}
LiveDelays == {0} \cup {from_secs(s) : s \in LiveLateSecs}

InitLive ==
    /\ is_paused = FALSE
    /\ work_duration = from_secs(60)
    /\ rest_duration \in {from_secs(5), from_secs(20)}
    /\ water_interval = 2
    /\ walk_interval = 3
    /\ eye_rest_count = 0
    /\ current_mode = "Work"
    /\ current_rest_type = "EyeRest"
    /\ start_time = 0
    /\ last_tick = 0
    /\ overlay_windows = <<>>
    /\ main_window_visible = TRUE
    /\ drag_anchor_window_pos = None
    /\ drag_anchor_pointer_screen_pos = None
    /\ now = 0
    /\ timer_due = TickInterval
    /\ monitors = <<MonA>>
    /\ main_window = [alive |-> TRUE, shown |-> TRUE, position |-> <<100, 100>>,
                      scale |-> ScaleUnit]
    /\ ui = [status_text |-> "Focus Time", time_display |-> <<>>,
             progress |-> <<>>, is_paused |-> FALSE, work_minutes |-> 1,
             rest_seconds |-> as_secs(rest_duration), water_interval |-> 2,
             walk_interval |-> 3]
    /\ overlay_epoch = 0
    /\ pause_log = None

NextLive ==
    \/ Elapse(MaxFine, LiveSecs) /\ UNCHANGED pause_log
    \/ \E delay \in LiveDelays :
           timer_tick(delay, LiveSecs, {Ok(ScaleUnit)}) /\ UNCHANGED pause_log

\* the repeating timer keeps firing: a step that can be taken is taken
SpecLive == InitLive /\ [][NextLive]_vars /\ WF_vars(NextLive)

\* the period that began at start_time can end before instants stop
room_to_finish ==
    start_time + (IF current_mode = "Work" THEN work_duration ELSE rest_duration)
        + TickInterval <= from_secs(LiveSecs)

\* C21: with the timer firing again and again on an unpaused application
\* whose main window exists, and no reset or configuration call, every Work
\* period is followed by a Rest and every Rest by a Work (for each period
\* that can end before the last modelled instant).
C21_ModesAlternate ==
    /\ (current_mode = "Work" /\ room_to_finish) ~> (current_mode = "Rest")
    /\ (current_mode = "Rest" /\ room_to_finish) ~> (current_mode = "Work")

\* the third Work period, two full cycles behind it
C21_Witness ==
    /\ current_mode = "Work"
    /\ eye_rest_count = 2
    /\ ~is_paused
    /\ main_window.alive
    /\ start_time >= 2 * from_secs(60) + 2 * rest_duration


(***************************************************************************)
(* Dragging the main window: the three drag callbacks in any order, with   *)
(* the pointer at several offsets inside the window, on a window of scale  *)
(* factor 1 or 2 whose logical position starts at (100, 100) and is kept   *)
(* within MaxDrag of it.                                                   *)
(***************************************************************************)
DragScales == {ScaleUnit, 2 * ScaleUnit}
PointerOffsets == {<<10, 10>>, <<15, 20>>, <<10, 25>>}
DragStart == <<100, 100>>

logical_position == to_logical(main_window.position, main_window.scale)

within_reach(position) ==
    \A i \in 1..2 : /\ position[i] - DragStart[i] <= MaxDrag
                    /\ DragStart[i] - position[i] <= MaxDrag

InitDrag ==
    /\ is_paused = FALSE
    /\ work_duration = from_secs(20 * 60)
    /\ rest_duration = from_secs(20)
    /\ water_interval = 2
    /\ walk_interval = 3
    /\ eye_rest_count = 0
    /\ current_mode = "Work"
    /\ current_rest_type = "EyeRest"
    /\ start_time = 0
    /\ last_tick = 0
    /\ overlay_windows = <<>>
    /\ main_window_visible = TRUE
    /\ drag_anchor_window_pos = None
    /\ drag_anchor_pointer_screen_pos = None
    /\ now = 0
    /\ timer_due = TickInterval
    /\ monitors = <<MonA>>
    /\ \E scale \in DragScales :
           main_window = [alive |-> TRUE, shown |-> TRUE,
                          position |-> to_physical(DragStart, scale),
                          scale |-> scale]
    /\ ui = [status_text |-> "", time_display |-> <<>>, progress |-> <<>>,
             is_paused |-> FALSE, work_minutes |-> 20, rest_seconds |-> 20,
             water_interval |-> 2, walk_interval |-> 3]
    /\ overlay_epoch = 0
    /\ pause_log = None

NextDrag ==
    \/ \E position \in PointerOffsets :
           on_start_window_drag(position) /\ UNCHANGED pause_log
    \/ \E position \in PointerOffsets :
           /\ on_update_window_drag(position)
           /\ within_reach(to_logical(main_window'.position, main_window.scale))
           /\ UNCHANGED pause_log
    \/ on_end_window_drag /\ UNCHANGED pause_log

SpecDrag == InitDrag /\ [][NextDrag]_vars

\* C22: a drag-update with the anchor present puts the window at
\* anchor_window_position + (P - anchor_pointer_position), P being the
\* window's current logical position plus the pointer's offset in it; a
\* drag-start stores the anchor (window position, window position + offset)
\* and moves nothing; started at (100, 100) with offset (10, 10), an update
\* with offset (15, 20) gives (105, 110).
C22_DragFollowsPointer ==
    /\ [](dragged_position(<<100, 100>>, <<110, 110>>, <<115, 120>>) = <<105, 110>>)
    /\ [][ /\ (drag_anchor_window_pos # None /\ drag_anchor' = drag_anchor)
              => \E position \in PointerOffsets :
                    LET P == <<logical_position[1] + position[1],
                               logical_position[2] + position[2]>>
                        a_w == drag_anchor_window_pos[1]
                        a_p == drag_anchor_pointer_screen_pos[1]
                    IN logical_position' = <<a_w[1] + (P[1] - a_p[1]),
                                             a_w[2] + (P[2] - a_p[2])>>
           /\ (drag_anchor' # drag_anchor /\ drag_anchor_window_pos' # None)
              => /\ main_window' = main_window
                 /\ drag_anchor_window_pos' = Some(logical_position)
                 /\ \E position \in PointerOffsets :
                        drag_anchor_pointer_screen_pos' =
                            Some(<<logical_position[1] + position[1],
                                   logical_position[2] + position[2]>>)
         ]_vars

\* the example: the drag started at (100, 100) with offset (10, 10) and the
\* window now at (105, 110)
C22_Witness ==
    /\ drag_anchor_window_pos = Some(<<100, 100>>)
    /\ drag_anchor_pointer_screen_pos = Some(<<110, 110>>)
    /\ logical_position = <<105, 110>>

\* C23: with the anchor absent (before a drag-start, after a drag-end) a
\* drag-update changes nothing: a step that leaves the anchor absent leaves
\* the window's position and every other part of the state as they were.
C23_UpdateWithoutAnchor ==
    [][ ( /\ drag_anchor_window_pos = None
          /\ drag_anchor_pointer_screen_pos = None
          /\ drag_anchor' = drag_anchor )
        => UNCHANGED vars ]_vars

\* after a drag that moved the window and was ended: no anchor
C23_Witness ==
    /\ drag_anchor_window_pos = None
    /\ drag_anchor_pointer_screen_pos = None
    /\ logical_position # DragStart
    /\ main_window.alive

\* C24: the two anchor fields are both present or both absent.
C24_AnchorsTogether ==
    (drag_anchor_window_pos = None) <=> (drag_anchor_pointer_screen_pos = None)

\* a drag under way: both present
C24_Witness ==
    /\ drag_anchor_window_pos # None
    /\ drag_anchor_pointer_screen_pos # None


(***************************************************************************)
(* show_rest_overlay on three displays of distinct origins, sizes and      *)
(* scale factors, every creation succeeding, each new overlay window       *)
(* reporting a scale factor of its own.                                    *)
(***************************************************************************)
ThreeLayouts == {<<MonA, MonB, MonC>>, <<MonC, MonB, MonA>>}
ThreeScales == {100, 125, 150}

ThreeIO ==
    {[ms |-> monitors, again |-> monitors, created |-> c,
      fallback |-> Ok(ScaleUnit), epoch |-> overlay_epoch + 1] :
        c \in [1..Len(monitors) -> {Ok(sc) : sc \in ThreeScales}]}

NextThree ==
    \/ \E io \in ThreeIO : call_show_rest_overlay(io) /\ UNCHANGED pause_log
    \/ \E remaining \in Remainings :
          call_update_rest_overlay(remaining) /\ UNCHANGED pause_log
    \/ call_hide_rest_overlay /\ UNCHANGED pause_log
    \/ \E layout \in ThreeLayouts : monitors_change(layout) /\ UNCHANGED pause_log

SpecThree == Init /\ [][NextThree]_vars

\* C25: each of the three overlays built for three monitor descriptors is at
\* its descriptor's origin and has the logical size device_size divided by
\* that descriptor's scale_factor, plus the pad of one.
C25_OverlayFitsDescriptor ==
    Len(overlay_windows) = 3 =>
        \A i \in 1..3 :
            LET entry == overlay_windows[i]
                m == entry.monitor
            IN /\ entry.position = <<m.x, m.y>>
               /\ entry.size = <<(m.width * ScaleUnit) \div m.scale_factor + 1,
                                 (m.height * ScaleUnit) \div m.scale_factor + 1>>


\* a run of the timer closure that neither is paused nor makes a transition
SelfLoopTick ==
    /\ TimerFired
    /\ ~is_paused
    /\ main_window.alive
    /\ ElapsedSince(start_time, now') < current_limit

\* a callback that begins the period anew
ResetStep == ~TimerFired /\ start_time' # start_time

\* the progress last emitted came from a self-loop tick (a transition or a
\* reset emits <<1, 1>>, and no limit is 1) measured against limit
emitted_by_self_loop(progress, limit) ==
    progress # <<>> /\ progress # <<1, 1>> /\ progress[2] = limit

CountdownWorkMinutes == {1, 100, 180}
CountdownRestSeconds == {5, 300}

NextCountdown ==
    \/ Elapse(TimingFine, TimingSecs) /\ UNCHANGED pause_log
    \/ \E delay \in TimingDelays :
          timer_tick(delay, TimingSecs, {Ok(ScaleUnit)}) /\ UNCHANGED pause_log
    \/ \E arg \in CountdownWorkMinutes :
          on_apply_work_minutes(arg) /\ UNCHANGED pause_log
    \/ \E arg \in CountdownRestSeconds :
          on_apply_rest_seconds(arg) /\ UNCHANGED pause_log

SpecCountdown == InitTiming /\ [][NextCountdown]_vars

Digits == {"0", "1", "2", "3", "4", "5", "6", "7", "8", "9"}

digit_value(c) == CASE c = "0" -> 0 [] c = "1" -> 1 [] c = "2" -> 2 [] c = "3" -> 3
                    [] c = "4" -> 4 [] c = "5" -> 5 [] c = "6" -> 6 [] c = "7" -> 7
                    [] c = "8" -> 8 [] c = "9" -> 9

\* the number a sequence of digits writes
RECURSIVE number_written(_)
number_written(text) ==
    IF text = <<>> THEN 0
    ELSE 10 * number_written(SubSeq(text, 1, Len(text) - 1))
         + digit_value(text[Len(text)])

minutes_part(text) == SubSeq(text, 1, Len(text) - 3)
seconds_part(text) == SubSeq(text, Len(text) - 1, Len(text))

\* digits, a colon, two digits
is_countdown_text(text) ==
    /\ Len(text) >= 4
    /\ text[Len(text) - 2] = ":"
    /\ \A i \in (1..Len(text)) \ {Len(text) - 2} : text[i] \in Digits

\* the text writes duration as minutes : seconds of the minute
writes_duration(text, duration) ==
    /\ is_countdown_text(text)
    /\ number_written(minutes_part(text)) = as_secs(duration) \div 60
    /\ number_written(seconds_part(text)) = as_secs(duration) % 60

\* the texts on display: the main window's and every overlay's
countdown_texts ==
    (IF ui.time_display = <<>> THEN {} ELSE {ui.time_display})
        \cup {overlay_windows[i].countdown : i \in 1..Len(overlay_windows)}

\* C27 as stated: every countdown text is MM:SS, exactly two digits of
\* minutes and two of seconds, for work durations up to 180 minutes.
C27_TwoMinuteDigits ==
    \A text \in countdown_texts :
        /\ is_countdown_text(text)
        /\ Len(minutes_part(text)) = 2

\* C27, amended: every countdown text writes floor(secs / 60), zero-padded
\* to two digits and three digits long from 100 minutes on, a colon, and
\* secs mod 60 in two digits; a tick without transition writes the whole
\* seconds of limit - elapsed, a transition, reset or applied work duration
\* the new period's duration, and the overlays carry the same text.
C27_CountdownFormat ==
    /\ [](\A text \in countdown_texts :
              /\ is_countdown_text(text)
              /\ number_written(seconds_part(text)) < 60
              /\ Len(minutes_part(text)) =
                     IF number_written(minutes_part(text)) < 100 THEN 2 ELSE 3
              /\ Len(minutes_part(text)) = 3 => minutes_part(text)[1] # "0")
    /\ [][ /\ SelfLoopTick
              => writes_duration(ui'.time_display,
                                 current_limit - ElapsedSince(start_time, now'))
           /\ (~SelfLoopTick /\ ui'.time_display # ui.time_display)
              => writes_duration(ui'.time_display,
                                 IF current_mode' = "Work" THEN work_duration'
                                 ELSE rest_duration')
           /\ overlay_windows' # overlay_windows
              => \A i \in 1..Len(overlay_windows') :
                     overlay_windows'[i].countdown = ui'.time_display
         ]_vars

\* a tick has just written the 179 minutes and some seconds left of a work
\* duration of 180 minutes
C27_Witness ==
    /\ current_mode = "Work"
    /\ work_duration = from_secs(180 * 60)
    /\ now = last_tick
    /\ now > start_time
    /\ Len(ui.time_display) = 6
    /\ writes_duration(ui.time_display, work_duration - (now - start_time))


\* C28: at every Work -> Rest transition the overlays' headline and the
\* first part of their message are eye-rest texts whatever the rest type;
\* for Water or Walk exactly one text of that category follows, for EyeRest
\* nothing follows.
C28_EyeRestMessageAlways ==
    [][ WorkToRest
        => /\ Len(overlay_windows') > 0
           /\ \A i \in 1..Len(overlay_windows') :
                  LET entry == overlay_windows'[i]
                  IN /\ entry.headline = "eye"
                     /\ Len(entry.message) >= 1
                     /\ entry.message[1] = "eye"
                     /\ current_rest_type' = "Water"
                        => entry.message = <<"eye", "water">>
                     /\ current_rest_type' = "Walk"
                        => entry.message = <<"eye", "walk">>
                     /\ current_rest_type' = "EyeRest"
                        => entry.message = <<"eye">>
      ]_vars

\* a Water rest on display: the eye-rest text with the water text after it
C28_Witness ==
    /\ current_mode = "Rest"
    /\ current_rest_type = "Water"
    /\ Len(overlay_windows) = 1
    /\ overlay_windows[1].headline = "eye"
    /\ overlay_windows[1].message = <<"eye", "water">>


\* C29: current_rest_type changes only in a Work -> Rest step of the timer;
\* ticks without transition, paused ticks, Rest -> Work, the secondary
\* action and the interval callbacks (during Rest too) leave it as it was.
C29_RestTypeFrame ==
    [][ current_rest_type' # current_rest_type
        => (TimerFired /\ ~is_paused /\ WorkToRest) ]_vars

\* a Water rest during which the walk interval was applied as 1: resolved
\* now, the rest would be Walk
C29_Witness ==
    /\ current_mode = "Rest"
    /\ current_rest_type = "Water"
    /\ walk_interval = 1
    /\ select_rest_type(eye_rest_count, walk_interval, water_interval) = "Walk"


\* C30: while walk_interval divides water_interval (equal intervals too), no
\* rest is a Water rest: a count water_interval divides is one walk_interval
\* divides, and Walk is tested first; with walk_interval 1 every rest is
\* Walk.
C30_WalkShadowsWater ==
    current_mode = "Rest" =>
        /\ Divides(walk_interval, water_interval) => current_rest_type # "Water"
        /\ walk_interval = 1 => current_rest_type = "Walk"

\* the fourth rest with walk every 2 and water every 4: a Walk rest where
\* water was due
C30_Witness ==
    /\ current_mode = "Rest"
    /\ eye_rest_count = 4
    /\ walk_interval = 2
    /\ water_interval = 4
    /\ current_rest_type = "Walk"


\* C31: a step that changes rest_duration (on_apply_rest_seconds, in Work
\* or in Rest) changes nothing else of the application state: start_time,
\* last_tick, mode, eye_rest_count and the overlays stay.  A Rest is
\* measured against the rest_duration of the moment: an unpaused tick in
\* Rest with now - start_time >= rest_duration goes to Work, also when the
\* duration was lowered under the elapsed time after the Rest began.
C31_ApplyRestSeconds ==
    [][ /\ rest_duration' # rest_duration
           => /\ UNCHANGED <<is_paused, work_duration, water_interval,
                             walk_interval, eye_rest_count, current_mode,
                             current_rest_type, start_time, last_tick,
                             overlay_windows, main_window_visible, drag_anchor>>
              /\ UNCHANGED <<now, timer_due, main_window>>
              /\ ui' = [ui EXCEPT !.rest_seconds = as_secs(rest_duration')]
        /\ ( /\ TimerFired
             /\ ~is_paused
             /\ current_mode = "Rest"
             /\ now' - start_time >= rest_duration )
           => /\ current_mode' = "Work"
              /\ overlay_windows' = <<>>
      ]_vars

\* a Rest whose tick has just run and left it a Rest, and whose duration
\* was then lowered to the elapsed time or below: the next tick ends it
C31_Witness ==
    /\ current_mode = "Rest"
    /\ ~is_paused
    /\ now = last_tick
    /\ now > start_time
    /\ rest_duration = from_secs(5)
    /\ now - start_time >= rest_duration


(***************************************************************************)
(* The callbacks when main_weak.upgrade() gives None: the main window      *)
(* component is gone while the timers and callbacks still run.  Every      *)
(* callback holds a Weak handle and takes its None branch from then on.    *)
(***************************************************************************)
main_window_dropped ==
    /\ main_window.alive
    /\ main_window' = [main_window EXCEPT !.alive = FALSE, !.shown = FALSE]
    /\ UNCHANGED <<app_state, now, timer_due, monitors, ui, overlay_epoch>>

NextAbsent ==
    \/ Elapse(MaxFine, TimingSecs) /\ UNCHANGED pause_log
    \/ \E delay \in Delays :
          timer_tick(delay, TimingSecs, {Ok(ScaleUnit)}) /\ UNCHANGED pause_log
    \/ on_toggle_timer /\ UNCHANGED pause_log
    \/ on_secondary_action /\ UNCHANGED pause_log
    \/ \E arg \in {1} : on_apply_work_minutes(arg) /\ UNCHANGED pause_log
    \/ \E arg \in {5} : on_apply_rest_seconds(arg) /\ UNCHANGED pause_log
    \/ \E arg \in IntervalArgs : on_apply_water_interval(arg) /\ UNCHANGED pause_log
    \/ \E arg \in IntervalArgs : on_apply_walk_interval(arg) /\ UNCHANGED pause_log
    \/ \E position \in DragOffsets :
          on_start_window_drag(position) /\ UNCHANGED pause_log
    \/ \E position \in DragOffsets :
          on_update_window_drag(position) /\ UNCHANGED pause_log
    \/ on_end_window_drag /\ UNCHANGED pause_log
    \/ on_minimize_to_tray /\ UNCHANGED pause_log
    \/ main_window_dropped /\ UNCHANGED pause_log

SpecAbsent == InitTiming /\ [][NextAbsent]_vars

====
